---------------------------- MODULE Spec2Model ----------------------------
(***************************************************************************)
(* Model of synthetic_beacon_state_gen: the inclusion-proof utility of     *)
(* eth_consensus_layer.py (InclusionProofUtilsTrait on BeaconBlockHeader   *)
(* and BeaconState) and the generator run of main.py.                      *)
(*                                                                         *)
(* Values of 32 bytes (chunks, roots, proof elements):                     *)
(*   - a literal chunk is the sequence of its 32 bytes, each in 0..255;    *)
(*   - the 64 bytes l + r given to the hash are kept as the pair <<l, r>>, *)
(*     and their digest is <<-1, l, r>>, so two digests are equal exactly  *)
(*     when their inputs are (the hash is collision-free);                 *)
(*   - ZERO_HASHES[k], the root of an all-zero subtree of depth k >= 1, is *)
(*     the one-element sequence <<-(k+1)>>, and hash_eth2 maps the pair    *)
(*     (ZERO_HASHES[k], ZERO_HASHES[k]) to ZERO_HASHES[k+1].               *)
(* Python indices are kept 0-based; At(s, i) is s[i].                      *)
(***************************************************************************)
EXTENDS Integers, Sequences, FiniteSets, TLC

\* Largest integer stored in a chunk of a container instance of ProofSpec.
MaxVal == 1

-----------------------------------------------------------------------------
(* Bytes and chunks                                                        *)

BYTES_PER_CHUNK == 32

\* list(f): the sequence f with every element computed, as Python builds
\* its lists
list(f) == f \o <<>>

Zeros(n) == list([i \in 1..n |-> 0])

\* int.to_bytes(size, "little"), the ssz serialization of uintN
RECURSIVE LittleEndian(_, _)
LittleEndian(v, size) ==
    IF size = 0 THEN <<>> ELSE <<v % 256>> \o LittleEndian(v \div 256, size - 1)

\* int.from_bytes(b, "little")
RECURSIVE FromLittleEndian(_)
FromLittleEndian(b) ==
    IF b = <<>> THEN 0 ELSE b[1] + 256 * FromLittleEndian(Tail(b))

\* The chunk of a uint64: its 8 bytes, padded to 32
Uint64Chunk(v) == LittleEndian(v, 8) \o Zeros(BYTES_PER_CHUNK - 8)

ZeroChunk == Zeros(BYTES_PER_CHUNK)

ZERO_HASHES(k) == IF k = 0 THEN ZeroChunk ELSE <<-(k + 1)>>

\* l + r for two 32-byte values
Concat(l, r) == <<l, r>>

\* hash_eth2(data) for data the concatenation of two 32-byte values
hash_eth2(data) ==
    IF data[1] = ZeroChunk /\ data[2] = ZeroChunk THEN ZERO_HASHES(1)
    ELSE IF Len(data[1]) = 1 /\ data[1] = data[2]
         THEN <<data[1][1] - 1>>
         ELSE <<-1, data[1], data[2]>>

At(s, i) == s[i + 1]

-----------------------------------------------------------------------------
(* The retained hash tree of a container (ssz HashTree.raw_hash_tree)      *)

\* One layer up: the nodes are paired left to right; a last node without a
\* partner is hashed with ZERO_HASHES[layer_index], which is not stored.
hash_layer(child_layer, layer_index) ==
    LET padded_child_layer ==
            IF Len(child_layer) % 2 = 0 THEN child_layer
            ELSE Append(child_layer, ZERO_HASHES(layer_index))
    IN list([i \in 1..(Len(padded_child_layer) \div 2) |->
            hash_eth2(Concat(padded_child_layer[2 * i - 1],
                             padded_child_layer[2 * i]))])

\* The layers from previous_layer (layer layer_index) up to the root.
RECURSIVE generate_hash_tree_layers(_, _)
generate_hash_tree_layers(previous_layer, layer_index) ==
    IF Len(previous_layer) = 1 THEN <<previous_layer>>
    ELSE <<previous_layer>>
           \o generate_hash_tree_layers(hash_layer(previous_layer, layer_index),
                                        layer_index + 1)

\* All layers, the chunks first and the one-element root layer last.
compute_hash_tree(chunks) == generate_hash_tree_layers(chunks, 0)

-----------------------------------------------------------------------------
(* The schemas that carry InclusionProofUtilsTrait                         *)

BeaconBlockHeaderFields ==
    <<"slot", "proposer_index", "parent_root", "state_root", "body_root">>

BeaconStateFields ==
    <<"genesis_time", "genesis_validators_root", "slot", "fork",
      "latest_block_header", "block_roots", "state_roots", "historical_roots",
      "eth1_data", "eth1_data_votes", "eth1_deposit_index",
      "validators", "balances", "randao_mixes", "slashings",
      "previous_epoch_participation", "current_epoch_participation",
      "justification_bits", "previous_justified_checkpoint",
      "current_justified_checkpoint", "finalized_checkpoint",
      "inactivity_scores", "current_sync_committee", "next_sync_committee",
      "latest_execution_payload_header", "next_withdrawal_index",
      "next_withdrawal_validator_index", "historical_summaries">>

Classes == {"BeaconBlockHeader", "BeaconState"}

\* cls._meta.field_names
field_names(cls) ==
    IF cls = "BeaconBlockHeader" THEN BeaconBlockHeaderFields
    ELSE BeaconStateFields

\* A container instance as the trait sees it: its class and its hash tree.
Container(cls, chunks) == [cls |-> cls, hash_tree |-> compute_hash_tree(chunks)]

\* self.hash_tree.chunks
get_merkle_tree_leafs(self) == self.hash_tree[1]

\* ssz.get_hash_tree_root(self): the single value of the last layer
get_hash_tree_root(self) == self.hash_tree[Len(self.hash_tree)][1]

\* self.hash_tree.raw_hash_tree[:-1]
raw_hash_tree_for_inclusion(self) ==
    SubSeq(self.hash_tree, 1, Len(self.hash_tree) - 1)

\* A lookup that answers the first field for a name the schema does not
\* declare.
get_field_index_or_first(self, field_name) ==
    LET names == field_names(self.cls)
    IN IF \E i \in 1..Len(names) : names[i] = field_name
       THEN (CHOOSE i \in 1..Len(names) : names[i] = field_name) - 1
       ELSE 0

\* tuple.index(field_name): the 0-based position, or -1 where Python raises
\* ValueError
get_field_index(self, field_name) ==
    LET names == field_names(self.cls)
    IN IF \E i \in 1..Len(names) : names[i] = field_name
       THEN (CHOOSE i \in 1..Len(names) : names[i] = field_name) - 1
       ELSE -1

-----------------------------------------------------------------------------
(* Outcomes of a call                                                      *)

NoProof == <<>>

\* status: "return" or "raise"; proof: the list returned by
\* construct_inclusion_proof; ok: the boolean returned by
\* verify_inclusion_proof; error: the exception raised; tree_read: whether
\* the retained tree was read; asserts: the per-layer assertions evaluated.
Outcome(status, proof, ok, error, tree_read, asserts) ==
    [status |-> status, proof |-> proof, ok |-> ok, error |-> error,
     tree_read |-> tree_read, asserts |-> asserts]

NoOutcome == Outcome("none", NoProof, FALSE, "", FALSE, 0)

Raise(error, tree_read, asserts) ==
    Outcome("raise", NoProof, FALSE, error, tree_read, asserts)


-----------------------------------------------------------------------------
(* InclusionProofUtilsTrait                                                *)

\* The loop of construct_inclusion_proof from layer k (0-based) on.
\* layer[sibling_idx] raises IndexError when the layer has no such node.
RECURSIVE construct_loop(_, _, _, _)
construct_loop(raw_hash_tree, k, field_index, result) ==
    IF k >= Len(raw_hash_tree) THEN Outcome("return", result, FALSE, "", TRUE, 0)
    ELSE LET layer == At(raw_hash_tree, k)
             sibling_idx == IF field_index % 2 = 1 THEN field_index - 1
                            ELSE field_index + 1
         IN IF sibling_idx >= Len(layer) THEN Raise("IndexError", TRUE, 0)
            ELSE construct_loop(raw_hash_tree, k + 1, field_index \div 2,
                                Append(result, At(layer, sibling_idx)))

\* Construction that does not compare field_hash with the leaf layer.
construct_without_precondition(self, field_name, field_hash) ==
    LET field_index == get_field_index(self, field_name)
        raw_hash_tree == raw_hash_tree_for_inclusion(self)
    IN IF field_index < 0 THEN Raise("ValueError", FALSE, 0)
       ELSE construct_loop(raw_hash_tree, 0, field_index, <<>>)

construct_inclusion_proof(self, field_name, field_hash) ==
    LET field_index == get_field_index(self, field_name)
        raw_hash_tree == raw_hash_tree_for_inclusion(self)
    IN IF field_index < 0 THEN Raise("ValueError", FALSE, 0)
       ELSE IF field_hash # At(At(raw_hash_tree, 0), field_index)
            THEN Raise("AssertionError", TRUE, 0)
            ELSE construct_loop(raw_hash_tree, 0, field_index, <<>>)

\* The hashing of verify_inclusion_proof (lines 113-118) from step idx on,
\* without its assertion: the root that (field_hash, inclusion_proof) lead to.
RECURSIVE recompute_root(_, _, _, _)
recompute_root(inclusion_proof, idx, field_index, current_hash) ==
    IF idx >= Len(inclusion_proof) THEN current_hash
    ELSE recompute_root(inclusion_proof, idx + 1, field_index \div 2,
                        IF field_index % 2 = 0
                        THEN hash_eth2(Concat(current_hash,
                                              At(inclusion_proof, idx)))
                        ELSE hash_eth2(Concat(At(inclusion_proof, idx),
                                              current_hash)))

\* The loop of verify_inclusion_proof with its assertion made on the node
\* next to the current one.
RECURSIVE verify_loop_asserting_neighbour(_, _, _, _, _)
verify_loop_asserting_neighbour(raw_hash_tree, inclusion_proof, idx, field_index, current_hash) ==
    IF idx >= Len(inclusion_proof) THEN <<"", current_hash, idx>>
    ELSE LET inclusion_step == At(inclusion_proof, idx)
             layer == At(raw_hash_tree, idx)
             other == IF field_index % 2 = 1 THEN field_index - 1
                      ELSE field_index + 1
         IN IF other >= Len(layer) THEN <<"IndexError", current_hash, idx>>
            ELSE IF current_hash # At(layer, other)
            THEN <<"AssertionError", current_hash, idx + 1>>
            ELSE verify_loop_asserting_neighbour(
                     raw_hash_tree, inclusion_proof, idx + 1,
                     field_index \div 2,
                     IF field_index % 2 = 0
                     THEN hash_eth2(Concat(current_hash, inclusion_step))
                     ELSE hash_eth2(Concat(inclusion_step, current_hash)))

\* The loop of verify_inclusion_proof from step idx on: <<error, hash, asserts>>
RECURSIVE verify_loop(_, _, _, _, _)
verify_loop(raw_hash_tree, inclusion_proof, idx, field_index, current_hash) ==
    IF idx >= Len(inclusion_proof) THEN <<"", current_hash, idx>>
    ELSE LET inclusion_step == At(inclusion_proof, idx)
             layer == At(raw_hash_tree, idx)
         IN IF field_index >= Len(layer) THEN <<"IndexError", current_hash, idx>>
            ELSE IF current_hash # At(layer, field_index)
            THEN <<"AssertionError", current_hash, idx + 1>>
            ELSE verify_loop(raw_hash_tree, inclusion_proof, idx + 1,
                             field_index \div 2,
                             IF field_index % 2 = 0
                             THEN hash_eth2(Concat(current_hash, inclusion_step))
                             ELSE hash_eth2(Concat(inclusion_step, current_hash)))

\* Verification that walks the proof whatever its length.
verify_without_length_check(self, field_name, field_hash, inclusion_proof) ==
    LET field_index == get_field_index(self, field_name)
        raw_hash_tree == raw_hash_tree_for_inclusion(self)
    IN IF field_index < 0 THEN Raise("ValueError", FALSE, 0)
       ELSE IF Len(inclusion_proof) > Len(raw_hash_tree)
            THEN Raise("IndexError", TRUE, Len(raw_hash_tree))
            ELSE LET r == verify_loop(raw_hash_tree, inclusion_proof, 0,
                                      field_index, field_hash)
                 IN IF r[1] # "" THEN Raise(r[1], TRUE, r[3])
                    ELSE Outcome("return", NoProof,
                                 r[2] = get_hash_tree_root(self), "", TRUE, r[3])

\* Verification that accepts once every step of the loop has passed.
verify_without_root_comparison(self, field_name, field_hash, inclusion_proof) ==
    LET field_index == get_field_index(self, field_name)
        raw_hash_tree == raw_hash_tree_for_inclusion(self)
    IN IF field_index < 0 THEN Raise("ValueError", FALSE, 0)
       ELSE IF Len(inclusion_proof) # Len(raw_hash_tree)
            THEN Outcome("return", NoProof, FALSE, "", TRUE, 0)
            ELSE LET r == verify_loop(raw_hash_tree, inclusion_proof, 0,
                                      field_index, field_hash)
                 IN IF r[1] # "" THEN Raise(r[1], TRUE, r[3])
                    ELSE Outcome("return", NoProof, TRUE, "", TRUE, r[3])

verify_inclusion_proof(self, field_name, field_hash, inclusion_proof) ==
    LET field_index == get_field_index(self, field_name)
        raw_hash_tree == raw_hash_tree_for_inclusion(self)
    IN IF field_index < 0 THEN Raise("ValueError", FALSE, 0)
       ELSE IF Len(inclusion_proof) # Len(raw_hash_tree)
            THEN Outcome("return", NoProof, FALSE, "", TRUE, 0)
            ELSE LET r == verify_loop(raw_hash_tree, inclusion_proof, 0,
                                      field_index, field_hash)
                 IN IF r[1] # "" THEN Raise(r[1], TRUE, r[3])
                    ELSE Outcome("return", NoProof,
                                 r[2] = get_hash_tree_root(self), "", TRUE, r[3])


-----------------------------------------------------------------------------
(* State of a session with the proof utility                               *)

VARIABLES
    self,       \* the container instance the calls are made on
    phase,      \* "new", "constructed" (construct was called), "verified"
    proof,      \* the proof the caller holds (<<>> before any was returned)
    issued,     \* where the held proof came from: instance, field, hash, proof
    edit,       \* what the caller did to the held proof or to the instance
    call,       \* the last call: op, field_name, field_hash, inclusion_proof
    ret,        \* its outcome
    \* a run of main
    fs,                   \* the files: path -> contents
    args,                 \* the command line of the run
    pc,                   \* where main is: "start", "generated", "built",
                          \* "written", "done", or "failed" with an exception
    error,                \* the exception main ended with ("" for none)
    run_epoch,            \* main's local epoch
    validators_list,
    balances_list,
    old_bs,
    beacon_state,
    beacon_state_hash,
    beacon_block_header,
    report,
    reread_beacon_state

proofVars == <<self, phase, proof, issued, edit, call, ret>>

mainVars == <<fs, args, pc, error, run_epoch, validators_list, balances_list,
              old_bs, beacon_state, beacon_state_hash, beacon_block_header,
              report, reread_beacon_state>>

vars == <<proofVars, mainVars>>

NoCall == [op |-> "none", field_name |-> "", field_hash |-> <<>>,
           inclusion_proof |-> <<>>]

NotIssued == [self |-> [cls |-> "", hash_tree |-> <<>>], field_name |-> "",
              field_hash |-> <<>>, proof |-> <<>>]

NoEdit == [kind |-> "none", pos |-> -1]

\* Field roots of the instances: every field one value, one field another
\* value, or every field a value of its own.
Uniform(n, b) == [i \in 1..n |-> Uint64Chunk(b)]
OneOff(n, b, d, v) == [i \in 1..n |-> Uint64Chunk(IF i = d THEN v ELSE b)]
Distinct(n) == [i \in 1..n |-> Uint64Chunk(i)]

Instances(cls) ==
    LET n == Len(field_names(cls))
    IN {Uniform(n, b) : b \in 0..MaxVal}
         \cup {OneOff(n, 0, d, MaxVal) : d \in {1, n}}
         \cup {Distinct(n)}

\* A field name no schema declares.
UnknownField == "no_such_field"

Names(cls) == {field_names(cls)[i] : i \in 1..Len(field_names(cls))}

\* 32-byte values a caller may pass where the tree holds another one.
OtherValues == {Uint64Chunk(v) : v \in 0..(MaxVal + 1)}
                 \cup {hash_eth2(Concat(Uint64Chunk(0), Uint64Chunk(1)))}

\* The root of field_name in the leaf layer of x (ZeroChunk for no field).
FieldRoot(x, field_name) ==
    IF get_field_index(x, field_name) < 0 THEN ZeroChunk
    ELSE At(get_merkle_tree_leafs(x), get_field_index(x, field_name))

ProofInit ==
    /\ \E cls \in Classes : \E chunks \in Instances(cls) :
          self = Container(cls, chunks)
    /\ phase = "new"
    /\ proof = <<>>
    /\ issued = NotIssued
    /\ edit = NoEdit
    /\ call = NoCall
    /\ ret = NoOutcome

\* x.construct_inclusion_proof(field_name, field_hash); the caller keeps a
\* returned proof.
Construct(field_name, field_hash) ==
    /\ phase = "new"
    /\ LET r == construct_inclusion_proof(self, field_name, field_hash)
       IN /\ ret' = r
          /\ call' = [op |-> "construct", field_name |-> field_name,
                      field_hash |-> field_hash, inclusion_proof |-> <<>>]
          /\ IF r.status = "return"
             THEN /\ proof' = r.proof
                  /\ issued' = [self |-> self, field_name |-> field_name,
                                field_hash |-> field_hash, proof |-> r.proof]
             ELSE UNCHANGED <<proof, issued>>
    /\ phase' = "constructed"
    /\ UNCHANGED <<self, edit, mainVars>>

\* The caller replaces the element at pos of the held proof by v.
Tamper(pos, v) ==
    /\ phase = "constructed" /\ edit = NoEdit
    /\ pos \in 0..(Len(proof) - 1)
    /\ v # At(proof, pos)
    /\ proof' = [proof EXCEPT ![pos + 1] = v]
    /\ edit' = [kind |-> "tamper", pos |-> pos]
    /\ UNCHANGED <<self, phase, issued, call, ret, mainVars>>

\* The caller drops the last element of the held proof.
Truncate ==
    /\ phase = "constructed" /\ edit = NoEdit
    /\ proof # <<>>
    /\ proof' = SubSeq(proof, 1, Len(proof) - 1)
    /\ edit' = [kind |-> "resize", pos |-> Len(proof) - 1]
    /\ UNCHANGED <<self, phase, issued, call, ret, mainVars>>

\* The caller appends v to the held proof.
Extend(v) ==
    /\ phase = "constructed" /\ edit = NoEdit
    /\ proof' = Append(proof, v)
    /\ edit' = [kind |-> "resize", pos |-> Len(proof)]
    /\ UNCHANGED <<self, phase, issued, call, ret, mainVars>>

\* The calls go on with another instance of the schema, which differs from
\* the first in the root of the field at index i.
OtherInstance(i, v) ==
    /\ phase = "constructed" /\ edit = NoEdit
    /\ issued # NotIssued
    /\ i \in 0..(Len(field_names(self.cls)) - 1)
    /\ v # At(get_merkle_tree_leafs(self), i)
    /\ self' = Container(self.cls,
                         [get_merkle_tree_leafs(self) EXCEPT ![i + 1] = v])
    /\ edit' = [kind |-> "set", pos |-> i]
    /\ UNCHANGED <<phase, proof, issued, call, ret, mainVars>>

\* x.verify_inclusion_proof(field_name, field_hash, proof) with the held proof
Verify(field_name, field_hash) ==
    /\ phase \in {"new", "constructed"}
    /\ ret' = verify_inclusion_proof(self, field_name, field_hash, proof)
    /\ call' = [op |-> "verify", field_name |-> field_name,
                field_hash |-> field_hash, inclusion_proof |-> proof]
    /\ phase' = "verified"
    /\ UNCHANGED <<self, proof, issued, edit, mainVars>>

\* The fields a caller verifies: any before a proof was returned, then the
\* field of the proof, the first and the last field, and an unknown name.
VerifyNames ==
    IF issued = NotIssued THEN Names(self.cls) \cup {UnknownField}
    ELSE {issued.field_name, field_names(self.cls)[1],
          field_names(self.cls)[Len(field_names(self.cls))], UnknownField}

ProofNext ==
    \/ \E f \in Names(self.cls) \cup {UnknownField} :
         \E h \in {FieldRoot(self, f), Uint64Chunk(MaxVal + 1)} : Construct(f, h)
    \/ \E pos \in 0..4 : \E v \in OtherValues : Tamper(pos, v)
    \/ Truncate
    \/ \E v \in {ZeroChunk} : Extend(v)
    \/ \E i \in 0..27 : \E v \in {Uint64Chunk(MaxVal + 1)} : OtherInstance(i, v)
    \/ \E f \in VerifyNames :
         \E h \in {FieldRoot(self, f), issued.field_hash} : Verify(f, h)



-----------------------------------------------------------------------------
(* main.py: constants and values                                           *)
(*                                                                         *)
(* Amounts are counted in units of MILLIETH (10**6 Gwei): every balance    *)
(* the three generators produce is a multiple of it, and Python's integers *)
(* are unbounded, so the sums of Report.create are the same sums.          *)

SLOTS_PER_EPOCH == 32

\* The epoch of a status that has not happened: above every epoch of a run.
FAR_FUTURE_EPOCH == 2147483647

\* log2 of constants.VALIDATOR_REGISTRY_LIMIT, the limit of both lists
VALIDATOR_REGISTRY_LIMIT_LOG2 == 40

MILLIETH == 1
GWEI_IN_1_ETH == 1000 * MILLIETH
FIXED_BALANCE == 16 * GWEI_IN_1_ETH

\* (b * k)[:n] for a byte string b
Repeat(b, n) == list([i \in 1..n |-> b[((i - 1) % Len(b)) + 1]])

\* HexBytes("010000000000000000000000b9d7934878b5fb9610b3fe8a5e441e8fad7e293f")
WithdrawalCreds_Lido ==
    <<1, 0, 0, 0, 0, 0, 0, 0, 0, 0, 0, 0,
      185, 215, 147, 72, 120, 181, 251, 150, 16, 179,
      254, 138, 94, 68, 30, 143, 173, 126, 41, 63>>

\* HexBytes(b"\01" * 32)
WithdrawalCreds_Other == Repeat(<<1>>, 32)

\* Constants.Genesis.BLOCK_ROOT
GENESIS_BLOCK_ROOT == ZeroChunk

\* make_validator_simple(epoch, withdrawal_credentials, deposited, active,
\* exited, pubkey): a Validator whose status epochs are the current epoch for
\* a status that holds and FAR_FUTURE_EPOCH for one that does not.
make_validator_simple(epoch, withdrawal_credentials, deposited, active, exited, pubkey) ==
    [pubkey |-> pubkey,
     withdrawal_credentials |-> withdrawal_credentials,
     effective_balance |-> 32 * GWEI_IN_1_ETH,
     slashed |-> FALSE,
     activation_eligibility_epoch |->
         IF deposited THEN epoch ELSE FAR_FUTURE_EPOCH,
     activation_epoch |-> IF active THEN epoch ELSE FAR_FUTURE_EPOCH,
     exit_epoch |-> IF exited THEN epoch ELSE FAR_FUTURE_EPOCH,
     withdrawable_epoch |-> IF exited THEN epoch ELSE FAR_FUTURE_EPOCH]

\* The flags a validator was made with.
IsDeposited(v) == v.activation_eligibility_epoch # FAR_FUTURE_EPOCH
IsActive(v) == v.activation_epoch # FAR_FUTURE_EPOCH
IsExited(v) == v.exit_epoch # FAR_FUTURE_EPOCH

\* make_beacon_block_state(slot, epoch, parent_root, validators, balances):
\* the fields the arguments set; every other field of BeaconState holds the
\* same value in every state made.
make_beacon_block_state(slot, epoch, parent_root, validators, balances) ==
    [slot |-> slot,
     fork |-> [epoch |-> epoch],
     latest_block_header |-> [parent_root |-> parent_root],
     validators |-> validators,
     balances |-> balances]

\* The first draws of random.randint(1, 100) from the generator seeded with
\* 0, 1, 2 and 3 (random.seed): four of the streams the generator, which
\* main leaves unseeded, may produce.
RANDINT_DRAWS ==
    <<<<50, 98, 54, 6, 34, 66, 63, 52, 39, 62, 46, 75, 28, 65, 18, 37, 18, 97,
        13, 80, 33, 69, 91, 78, 19, 40, 13, 94, 10, 88, 43, 61, 72, 13, 46, 56>>,
      <<18, 73, 98, 9, 33, 16, 64, 98, 58, 61, 84, 49, 27, 13, 63, 4, 50, 56,
        78, 98, 99, 1, 90, 58, 35, 93, 30, 76, 14, 41, 4, 3, 4, 84, 70, 2>>,
      <<8, 12, 11, 47, 22, 95, 86, 40, 33, 78, 28, 78, 5, 75, 88, 21, 56, 82,
        51, 93, 66, 48, 70, 57, 65, 35, 5, 4, 47, 60, 41, 49, 55, 68, 22, 72>>,
      <<31, 76, 70, 17, 48, 78, 61, 81, 75, 9, 78, 2, 61, 34, 71, 30, 25, 92,
        61, 70, 71, 61, 51, 82, 20, 30, 82, 20, 67, 50, 95, 2, 86, 100, 9, 21>>>>

\* RandInt(seed, i): the draw of index i (from 0) in the stream of the seed
RandInt(seed, i) == RANDINT_DRAWS[seed + 1][i + 1]

\* The i-th value (from 0) of the balance generator of main: repeat, count,
\* or one randint(1, 100) draw for each balance.
balance_gen(mode, seed, i) ==
    IF mode = "fixed" THEN FIXED_BALANCE
    ELSE IF mode = "sequential" THEN 1 * GWEI_IN_1_ETH + i * MILLIETH
    ELSE RandInt(seed, i) * GWEI_IN_1_ETH

\* What random.shuffle makes of list(range(n)) for n = 32..35, with the
\* generator seeded with 0..3, when nothing was drawn before the shuffle and
\* when n balances were: SHUFFLE_ORDERS[seed + 1][n - 31][1 or 2].
SHUFFLE_ORDERS ==
    <<<<<<<<3, 7, 29, 20, 19, 5, 0, 10, 14, 26, 17, 21, 27, 23, 2, 22, 4, 25,
            6, 18, 11, 30, 9, 12, 15, 16, 8, 1, 13, 28, 31, 24>>,
          <<25, 4, 3, 9, 21, 26, 27, 5, 7, 18, 22, 28, 23, 29, 30, 12, 2, 0,
            24, 1, 8, 16, 14, 15, 17, 31, 20, 19, 10, 13, 11, 6>>>>,
        <<<<7, 20, 22, 23, 10, 0, 5, 30, 13, 2, 14, 29, 19, 31, 17, 3, 21, 32,
            4, 28, 6, 18, 11, 27, 9, 25, 12, 15, 16, 8, 1, 26, 24>>,
          <<29, 28, 24, 30, 4, 26, 23, 21, 11, 27, 31, 3, 5, 7, 9, 18, 12, 2,
            0, 25, 1, 8, 16, 14, 15, 17, 32, 20, 19, 10, 13, 22, 6>>>>,
        <<<<7, 0, 27, 20, 10, 5, 21, 13, 1, 17, 31, 22, 23, 33, 14, 30, 3, 19,
            32, 4, 29, 6, 18, 11, 28, 9, 25, 12, 15, 16, 8, 2, 26, 24>>,
          <<18, 30, 21, 7, 4, 24, 28, 23, 9, 25, 33, 13, 5, 11, 3, 10, 26, 29,
            12, 2, 0, 32, 1, 8, 16, 14, 15, 17, 6, 31, 19, 20, 27, 22>>>>,
        <<<<7, 0, 27, 20, 10, 5, 21, 13, 1, 17, 32, 22, 23, 34, 14, 8, 3, 19,
            33, 4, 29, 6, 18, 11, 28, 9, 25, 12, 15, 31, 30, 16, 2, 26, 24>>,
          <<28, 21, 5, 19, 29, 4, 6, 22, 18, 31, 9, 3, 26, 32, 11, 24, 7, 10,
            15, 23, 33, 12, 2, 0, 17, 25, 1, 8, 16, 34, 14, 30, 13, 20, 27>>>>>>,
      <<<<<<26, 17, 11, 10, 28, 1, 5, 4, 7, 16, 9, 19, 30, 13, 22, 0, 21, 29,
            6, 12, 20, 23, 14, 15, 3, 31, 2, 24, 25, 27, 18, 8>>,
          <<27, 8, 24, 9, 2, 5, 18, 31, 25, 22, 4, 26, 19, 10, 3, 11, 30, 29,
            15, 14, 7, 16, 28, 23, 13, 6, 21, 12, 0, 17, 20, 1>>>>,
        <<<<2, 17, 10, 30, 27, 22, 7, 16, 5, 1, 9, 21, 18, 11, 31, 26, 19, 13,
            23, 0, 25, 29, 6, 12, 20, 28, 14, 24, 15, 3, 32, 4, 8>>,
          <<22, 12, 30, 3, 19, 5, 28, 4, 2, 1, 10, 8, 29, 26, 25, 9, 27, 18,
            20, 11, 31, 17, 15, 14, 7, 16, 32, 23, 13, 6, 21, 24, 0>>>>,
        <<<<2, 18, 10, 23, 32, 31, 7, 21, 17, 5, 1, 9, 22, 19, 11, 33, 27, 25,
            13, 28, 0, 26, 30, 6, 12, 20, 29, 14, 24, 15, 3, 16, 4, 8>>,
          <<18, 29, 22, 3, 12, 27, 5, 20, 4, 2, 1, 10, 8, 30, 6, 28, 9, 25,
            19, 21, 11, 26, 17, 15, 14, 32, 7, 16, 33, 23, 31, 13, 24, 0>>>>,
        <<<<33, 22, 2, 29, 19, 26, 23, 17, 32, 10, 11, 18, 5, 1, 9, 31, 34,
            28, 21, 13, 25, 0, 27, 3, 6, 12, 20, 30, 14, 24, 15, 7, 16, 4, 8>>,
          <<18, 28, 12, 3, 30, 6, 19, 5, 21, 4, 2, 1, 10, 8, 26, 32, 29, 9,
            25, 20, 22, 11, 31, 17, 15, 14, 33, 7, 16, 34, 23, 27, 13, 24, 0>>>>>>,
      <<<<<<16, 25, 18, 31, 29, 20, 0, 4, 10, 7, 14, 17, 22, 28, 15, 12, 13,
            27, 1, 24, 6, 19, 8, 9, 21, 23, 5, 26, 11, 30, 2, 3>>,
          <<3, 22, 1, 13, 15, 18, 9, 19, 12, 6, 23, 2, 14, 20, 8, 11, 26, 29,
            4, 21, 10, 25, 0, 24, 7, 31, 17, 5, 16, 30, 28, 27>>>>,
        <<<<16, 28, 18, 32, 30, 20, 0, 4, 10, 7, 14, 17, 22, 29, 15, 12, 13,
            27, 1, 24, 6, 19, 8, 9, 21, 25, 23, 31, 26, 11, 2, 5, 3>>,
          <<28, 20, 8, 3, 1, 24, 15, 26, 6, 2, 29, 19, 18, 9, 12, 21, 13, 14,
            25, 17, 22, 31, 23, 16, 4, 27, 32, 5, 0, 30, 7, 11, 10>>>>,
        <<<<16, 24, 20, 33, 2, 29, 0, 4, 10, 7, 14, 17, 27, 30, 15, 12, 13,
            28, 18, 1, 22, 6, 19, 8, 9, 21, 25, 23, 31, 26, 11, 32, 5, 3>>,
          <<29, 20, 8, 3, 1, 25, 31, 27, 6, 2, 30, 18, 19, 9, 12, 22, 21, 13,
            14, 26, 17, 23, 32, 24, 16, 4, 28, 33, 5, 0, 7, 15, 11, 10>>>>,
        <<<<15, 27, 22, 20, 16, 34, 2, 17, 30, 10, 0, 4, 14, 7, 24, 11, 12,
            13, 29, 18, 1, 28, 6, 19, 8, 9, 21, 25, 31, 32, 26, 23, 33, 5, 3>>,
          <<0, 31, 27, 19, 29, 33, 9, 3, 8, 12, 6, 2, 7, 18, 20, 22, 24, 23,
            13, 32, 28, 17, 21, 25, 34, 26, 16, 4, 30, 10, 5, 1, 14, 15, 11>>>>>>,
      <<<<<<9, 24, 14, 10, 28, 1, 5, 3, 22, 21, 13, 12, 23, 16, 27, 6, 7, 29,
            8, 25, 0, 26, 2, 30, 20, 31, 19, 11, 4, 17, 18, 15>>,
          <<21, 17, 30, 28, 23, 22, 10, 26, 6, 16, 3, 7, 2, 25, 27, 11, 31,
            14, 20, 13, 12, 19, 15, 8, 0, 29, 9, 1, 18, 24, 5, 4>>>>,
        <<<<30, 4, 9, 1, 25, 22, 5, 14, 26, 12, 13, 3, 24, 10, 23, 16, 21, 6,
            7, 17, 31, 27, 0, 28, 2, 18, 20, 32, 19, 29, 11, 8, 15>>,
          <<20, 17, 5, 22, 26, 23, 31, 27, 6, 16, 3, 7, 2, 25, 28, 11, 32, 14,
            29, 21, 13, 12, 19, 15, 8, 0, 30, 9, 1, 18, 24, 10, 4>>>>,
        <<<<11, 4, 9, 1, 24, 31, 5, 26, 21, 16, 14, 3, 25, 13, 10, 12, 27, 22,
            6, 7, 17, 32, 28, 0, 30, 2, 18, 20, 33, 19, 29, 23, 8, 15>>,
          <<29, 1, 5, 21, 20, 16, 27, 30, 32, 6, 17, 25, 7, 31, 28, 3, 11, 33,
            14, 18, 22, 13, 12, 23, 19, 15, 8, 26, 0, 24, 9, 2, 10, 4>>>>,
        <<<<14, 11, 5, 22, 9, 29, 13, 16, 1, 26, 21, 24, 28, 10, 3, 4, 12, 31,
            27, 32, 25, 6, 7, 17, 33, 34, 0, 19, 2, 18, 20, 30, 23, 8, 15>>,
          <<0, 29, 5, 30, 25, 21, 28, 9, 17, 6, 34, 20, 16, 7, 33, 31, 3, 11,
            4, 14, 18, 24, 13, 22, 12, 23, 32, 15, 8, 27, 26, 1, 19, 2, 10>>>>>>>>

\* The order random.shuffle draws for a list of n pairs: the original index
\* (from 0) of every element of the result, after `drawn` randint draws.
shuffle_order(seed, n, drawn) ==
    SHUFFLE_ORDERS[seed + 1][n - 31][IF drawn = 0 THEN 1 ELSE 2]

\* The list s in the order perm: any permutation of its indices may be drawn.
Shuffled(s, perm) == list([i \in 1..Len(s) |-> s[perm[i] + 1]])

Min(a, b) == IF a <= b THEN a ELSE b

\* Generation without the two assertions, in which the Lido validators are
\* active only from index lido_validators - 5 on.
generate_with_late_activation(slot, epoch, total_validators, lido_validators, mode, seed, shuffle, perm) ==
    [error |-> "",
     validators |-> list([i \in 1..total_validators |->
         IF i <= lido_validators
         THEN make_validator_simple(epoch, WithdrawalCreds_Lido,
                                    (i - 1) >= 5,
                                    (i - 1) >= lido_validators - 5,
                                    (i - 1) >= lido_validators - 10,
                                    Repeat(<<1>>, 48))
         ELSE make_validator_simple(epoch, WithdrawalCreds_Other,
                                    TRUE, TRUE, FALSE, Repeat(<<1>>, 48))]),
     balances |-> list([i \in 1..total_validators |->
                          balance_gen(mode, seed, i - 1)])]

\* Generation with every validator given the Lido credentials.
generate_all_lido(slot, epoch, total_validators, lido_validators, mode, seed, shuffle, perm) ==
    [error |-> "",
     validators |-> list([i \in 1..total_validators |->
         make_validator_simple(epoch, WithdrawalCreds_Lido, TRUE, TRUE, FALSE,
                               Repeat(<<1>>, 48))]),
     balances |-> list([i \in 1..total_validators |-> balance_gen(mode, seed, i - 1)])]

\* generate_validators_and_balances; mode and seed stand for
\* balance_generator, perm is the order random.shuffle draws (the original
\* index of every element of the result).
generate_validators_and_balances(slot, epoch, total_validators, lido_validators, mode, seed, shuffle, perm) ==
    IF ~(lido_validators <= total_validators) \/ ~(lido_validators >= 32)
    THEN [error |-> "AssertionError", validators |-> <<>>, balances |-> <<>>]
    ELSE
    LET deposited == 5
        active == lido_validators \div 2
        exited == lido_validators - 10
        balances == list([i \in 1..total_validators |-> balance_gen(mode, seed, i - 1)])
        validators_lido == list([i \in 1..lido_validators |->
            make_validator_simple(epoch, WithdrawalCreds_Lido,
                                  (i - 1) >= deposited, (i - 1) >= active,
                                  (i - 1) >= exited, Repeat(<<1>>, 48))])
        other_validators == list([i \in 1..(total_validators - lido_validators) |->
            make_validator_simple(epoch, WithdrawalCreds_Other,
                                  TRUE, TRUE, FALSE, Repeat(<<1>>, 48))])
        validators == validators_lido \o other_validators
        n == Min(Len(validators), Len(balances))
    IN IF shuffle
       THEN [error |-> "",
             validators |-> Shuffled(SubSeq(validators, 1, n), perm),
             balances |-> Shuffled(SubSeq(balances, 1, n), perm)]
       ELSE [error |-> "", validators |-> validators, balances |-> balances]

-----------------------------------------------------------------------------
(* Hash tree roots of the values main builds (ssz.get_hash_tree_root)      *)

\* The root over 2^depth leaves from the root over the 2^k first ones: the
\* node hashed with ZERO_HASHES(k), the result with ZERO_HASHES(k + 1), and
\* so on up to depth. The chain is kept as one term <<-2, node, k, depth>>:
\* the hash being collision-free, two chains are equal exactly when their
\* terms are.
merkleize_to_depth(node, k, depth) ==
    IF k >= depth THEN node
    ELSE IF node = ZERO_HASHES(k) THEN ZERO_HASHES(depth)
    ELSE <<-2, node, k, depth>>

\* The root of the chunks in a tree of 2^depth leaves.
merkleize(chunks, depth) ==
    IF chunks = <<>> THEN ZERO_HASHES(depth)
    ELSE LET layers == compute_hash_tree(chunks)
         IN merkleize_to_depth(layers[Len(layers)][1], Len(layers) - 1, depth)

\* The root of a list: its data root hashed with its length.
mix_in_length(root, length) ==
    hash_eth2(Concat(root, LittleEndian(length, BYTES_PER_CHUNK)))

BoolChunk(b) == <<IF b THEN 1 ELSE 0>> \o Zeros(BYTES_PER_CHUNK - 1)

\* hash_tree_root of a Validator: its 8 field roots, the 48-byte pubkey
\* taking two chunks.
validator_root(v) ==
    merkleize(<<merkleize(<<SubSeq(v.pubkey, 1, 32),
                            SubSeq(v.pubkey, 33, 48) \o Zeros(16)>>, 1),
                v.withdrawal_credentials,
                Uint64Chunk(v.effective_balance),
                BoolChunk(v.slashed),
                Uint64Chunk(v.activation_eligibility_epoch),
                Uint64Chunk(v.activation_epoch),
                Uint64Chunk(v.exit_epoch),
                Uint64Chunk(v.withdrawable_epoch)>>, 3)

\* hash_tree_root of List(Validator, VALIDATOR_REGISTRY_LIMIT)
validators_root(validators) ==
    mix_in_length(merkleize(list([i \in 1..Len(validators) |->
                                validator_root(validators[i])]),
                            VALIDATOR_REGISTRY_LIMIT_LOG2),
                  Len(validators))

\* The chunks of a list of uint64: four values to a chunk, the last padded.
PackUint64(values) ==
    list([j \in 1..((Len(values) + 3) \div 4) |->
        LET word(k) == IF 4 * (j - 1) + k <= Len(values)
                       THEN LittleEndian(values[4 * (j - 1) + k], 8)
                       ELSE Zeros(8)
        IN word(1) \o word(2) \o word(3) \o word(4)])

\* hash_tree_root of List(Gwei, VALIDATOR_REGISTRY_LIMIT)
balances_root(balances) ==
    mix_in_length(merkleize(PackUint64(balances),
                            VALIDATOR_REGISTRY_LIMIT_LOG2 - 2),
                  Len(balances))

\* The field roots of a BeaconBlockHeader
header_chunks(h) ==
    <<Uint64Chunk(h.slot), Uint64Chunk(h.proposer_index),
      h.parent_root, h.state_root, h.body_root>>

\* The field roots of a BeaconState made by make_beacon_block_state; a field
\* the arguments do not set has the zero chunk for its root.
state_chunks(bs) ==
    list([i \in 1..Len(BeaconStateFields) |->
        LET name == BeaconStateFields[i]
        IN IF name = "slot" THEN Uint64Chunk(bs.slot)
           ELSE IF name = "fork"
           THEN merkleize(<<ZeroChunk, ZeroChunk, Uint64Chunk(bs.fork.epoch)>>, 2)
           ELSE IF name = "latest_block_header"
           THEN merkleize(<<ZeroChunk, ZeroChunk,
                            bs.latest_block_header.parent_root,
                            ZeroChunk, ZeroChunk>>, 3)
           ELSE IF name = "validators" THEN validators_root(bs.validators)
           ELSE IF name = "balances" THEN balances_root(bs.balances)
           ELSE ZeroChunk])

\* The instances main hands to ssz.get_hash_tree_root
BeaconStateContainer(bs) == Container("BeaconState", state_chunks(bs))
BeaconBlockHeaderContainer(h) == Container("BeaconBlockHeader", header_chunks(h))

state_root_of(bs) == get_hash_tree_root(BeaconStateContainer(bs))
header_root_of(h) == get_hash_tree_root(BeaconBlockHeaderContainer(h))

-----------------------------------------------------------------------------
(* Serialization (ssz.encode, ssz.decode). The codec is a library outside   *)
(* the repository; it is modelled from its contract (encode, decode) on the *)
(* fields main sets: slot, fork.epoch, latest_block_header.parent_root,     *)
(* validators and balances. The other fields of a BeaconState, which main   *)
(* leaves as make_beacon_block_state makes them, are not part of a state    *)
(* here and are not serialized.                                             *)

\* seqs[lo] \o ... \o seqs[hi]
RECURSIVE ConcatRange(_, _, _)
ConcatRange(seqs, lo, hi) ==
    IF lo > hi THEN <<>>
    ELSE IF lo = hi THEN seqs[lo]
    ELSE ConcatRange(seqs, lo, (lo + hi) \div 2)
           \o ConcatRange(seqs, (lo + hi) \div 2 + 1, hi)

\* pubkey 48, withdrawal_credentials 32, effective_balance 8, slashed 1 and
\* four epochs of 8 bytes
VALIDATOR_SIZE == 121

\* slot 8, fork.epoch 8, latest_block_header.parent_root 32 and the 4-byte
\* offsets of validators and of balances
STATE_FIXED_SIZE == 56

\* A value of a Validator's schema: integers of 64 bits, byte vectors of the
\* declared sizes.
encodable_validator(v) ==
    /\ Len(v.pubkey) = 48 /\ Len(v.withdrawal_credentials) = 32
    /\ v.effective_balance >= 0 /\ v.slashed \in BOOLEAN
    /\ v.activation_eligibility_epoch >= 0 /\ v.activation_epoch >= 0
    /\ v.exit_epoch >= 0 /\ v.withdrawable_epoch >= 0

encode_validator(v) ==
    v.pubkey \o v.withdrawal_credentials
      \o LittleEndian(v.effective_balance, 8)
      \o <<IF v.slashed THEN 1 ELSE 0>>
      \o LittleEndian(v.activation_eligibility_epoch, 8)
      \o LittleEndian(v.activation_epoch, 8)
      \o LittleEndian(v.exit_epoch, 8)
      \o LittleEndian(v.withdrawable_epoch, 8)

decode_validator(b) ==
    [pubkey |-> SubSeq(b, 1, 48),
     withdrawal_credentials |-> SubSeq(b, 49, 80),
     effective_balance |-> FromLittleEndian(SubSeq(b, 81, 88)),
     slashed |-> b[89] = 1,
     activation_eligibility_epoch |-> FromLittleEndian(SubSeq(b, 90, 97)),
     activation_epoch |-> FromLittleEndian(SubSeq(b, 98, 105)),
     exit_epoch |-> FromLittleEndian(SubSeq(b, 106, 113)),
     withdrawable_epoch |-> FromLittleEndian(SubSeq(b, 114, 121))]

\* A value of the BeaconState schema, in the fields main sets. The limit of
\* the two lists, 2^40, is above every length a run reaches.
encodable_state(bs) ==
    /\ bs.slot >= 0 /\ bs.fork.epoch >= 0
    /\ Len(bs.latest_block_header.parent_root) = BYTES_PER_CHUNK
    /\ \A i \in 1..Len(bs.validators) : encodable_validator(bs.validators[i])
    /\ \A i \in 1..Len(bs.balances) : bs.balances[i] >= 0

\* The fixed-size fields in schema order, the two lists as offsets into the
\* payloads that follow.
serialize_state(bs) ==
    LET validators == ConcatRange([i \in 1..Len(bs.validators) |->
                                      encode_validator(bs.validators[i])],
                                  1, Len(bs.validators))
        balances == ConcatRange([i \in 1..Len(bs.balances) |->
                                    LittleEndian(bs.balances[i], 8)],
                                1, Len(bs.balances))
    IN LittleEndian(bs.slot, 8)
         \o LittleEndian(bs.fork.epoch, 8)
         \o bs.latest_block_header.parent_root
         \o LittleEndian(STATE_FIXED_SIZE, 4)
         \o LittleEndian(STATE_FIXED_SIZE + Len(validators), 4)
         \o validators \o balances

\* encode: EncodingError for a value that violates its type's bound
encode_state(bs) ==
    IF encodable_state(bs)
    THEN [error |-> "", bytes |-> serialize_state(bs)]
    ELSE [error |-> "EncodingError", bytes |-> <<>>]

NoState == make_beacon_block_state(0, 0, GENESIS_BLOCK_ROOT, <<>>, <<>>)

\* decode: the fixed-size fields are read at their offsets and the two lists
\* between the offsets of the table; DecodingError for bytes that are
\* truncated, whose offsets are out of order, out of range or off an
\* element's size, or whose boolean is neither 0 nor 1.
decode_state(bytes) ==
    IF Len(bytes) < STATE_FIXED_SIZE
    THEN [error |-> "DecodingError", value |-> NoState]
    ELSE
    LET o1 == FromLittleEndian(SubSeq(bytes, 49, 52))
        o2 == FromLittleEndian(SubSeq(bytes, 53, 56))
    IN IF \/ o1 # STATE_FIXED_SIZE \/ o2 < o1 \/ o2 > Len(bytes)
          \/ (o2 - o1) % VALIDATOR_SIZE # 0
          \/ (Len(bytes) - o2) % 8 # 0
          \/ \E i \in 1..((o2 - o1) \div VALIDATOR_SIZE) :
                bytes[o1 + (i - 1) * VALIDATOR_SIZE + 89] > 1
       THEN [error |-> "DecodingError", value |-> NoState]
       ELSE [error |-> "",
             value |->
               [slot |-> FromLittleEndian(SubSeq(bytes, 1, 8)),
                fork |-> [epoch |-> FromLittleEndian(SubSeq(bytes, 9, 16))],
                latest_block_header |-> [parent_root |-> SubSeq(bytes, 17, 48)],
                validators |->
                    list([i \in 1..((o2 - o1) \div VALIDATOR_SIZE) |->
                        decode_validator(SubSeq(bytes,
                            o1 + (i - 1) * VALIDATOR_SIZE + 1,
                            o1 + i * VALIDATOR_SIZE))]),
                balances |->
                    list([i \in 1..((Len(bytes) - o2) \div 8) |->
                        FromLittleEndian(SubSeq(bytes, o2 + (i - 1) * 8 + 1,
                                                o2 + i * 8))])]]

\* ssz.encode(beacon_block_header): the five fields at their fixed offsets,
\* kept apart
encode_header(h) ==
    <<LittleEndian(h.slot, 8), LittleEndian(h.proposer_index, 8),
      h.parent_root, h.state_root, h.body_root>>

-----------------------------------------------------------------------------
(* main.py: the header, the report, the files                              *)

\* b"\x01\x02" * 16
HEADER_PARENT_ROOT == Repeat(<<1, 2>>, 32)

\* b"\xFC\xFD\xFE\xFF" * 8
HEADER_BODY_ROOT == Repeat(<<252, 253, 254, 255>>, 32)

\* A header whose state_root is not taken from the state.
create_header_of_no_state(slot, state_hash) ==
    [slot |-> slot,
     proposer_index |-> slot + 42,
     parent_root |-> HEADER_PARENT_ROOT,
     state_root |-> ZeroChunk,
     body_root |-> HEADER_BODY_ROOT]

create_beacon_block_header(slot, state_hash) ==
    [slot |-> slot,
     proposer_index |-> slot + 42,
     parent_root |-> HEADER_PARENT_ROOT,
     state_root |-> state_hash,
     body_root |-> HEADER_BODY_ROOT]

\* f[lo] + ... + f[hi]
RECURSIVE SumRange(_, _, _)
SumRange(f, lo, hi) ==
    IF lo > hi THEN 0
    ELSE IF lo = hi THEN f[lo]
    ELSE SumRange(f, lo, (lo + hi) \div 2) + SumRange(f, (lo + hi) \div 2 + 1, hi)

\* Report.create counting every validator as a Lido one.
Report_create_counting_all(epoch_arg, bs, header) ==
    [slot |-> bs.slot,
     epoch |-> bs.slot \div SLOTS_PER_EPOCH,
     beacon_block_hash |-> header_root_of(header),
     beacon_state_hash |-> state_root_of(bs),
     total_balance |-> SumRange(bs.balances, 1, Len(bs.balances)),
     lido_cl_balance |-> SumRange(bs.balances, 1, Len(bs.balances)),
     total_validators |-> Len(bs.validators),
     lido_total_validators |-> Len(bs.validators),
     lido_deposited_validators |-> Len(bs.validators),
     lido_future_deposit_validators |-> 0,
     lido_exited_validators |-> 0,
     lido_withdrawal_credentials |-> WithdrawalCreds_Lido]

\* Report.create(epoch, beacon_state, beacon_block_header): the loop runs
\* over zip(validators, balances), the pairs up to the shorter list; the
\* epoch argument is overwritten from the state's slot.
Report_create(epoch_arg, bs, header) ==
    LET ep == bs.slot \div SLOTS_PER_EPOCH
        n == Min(Len(bs.validators), Len(bs.balances))
        lido == {i \in 1..n :
                   bs.validators[i].withdrawal_credentials = WithdrawalCreds_Lido}
    IN [slot |-> bs.slot,
        epoch |-> ep,
        beacon_block_hash |-> header_root_of(header),
        beacon_state_hash |-> state_root_of(bs),
        total_balance |-> SumRange(bs.balances, 1, n),
        lido_cl_balance |->
            SumRange([i \in 1..n |-> IF i \in lido THEN bs.balances[i] ELSE 0],
                     1, n),
        total_validators |-> Len(bs.validators),
        lido_total_validators |-> Cardinality(lido),
        lido_deposited_validators |-> Cardinality({i \in lido :
            ep >= bs.validators[i].activation_eligibility_epoch}),
        lido_future_deposit_validators |-> Cardinality({i \in lido :
            ~(ep >= bs.validators[i].activation_eligibility_epoch)}),
        lido_exited_validators |-> Cardinality({i \in lido :
            ep >= bs.validators[i].exit_epoch}),
        lido_withdrawal_credentials |-> WithdrawalCreds_Lido]

\* The manifesto main dumps as JSON: the report and, for the header and the
\* state, the hash and the root of every field.
manifesto_of(rep, bs, header) ==
    [report |-> rep,
     beacon_block_header |-> [hash |-> rep.beacon_block_hash,
                              parts |-> header_chunks(header)],
     beacon_state |-> [hash |-> rep.beacon_state_hash,
                       parts |-> state_chunks(bs)]]

\* A path is its stem, a sequence of parts, and its suffix.
NoPath == [stem |-> <<>>, suffix |-> ""]
DefaultFile == [stem |-> <<"beacon_block_state">>, suffix |-> ".ssz"]
OldFile == [stem |-> <<"old_state">>, suffix |-> ".ssz"]

\* file.with_stem(f"{file.stem}_header")
header_file_of(file) ==
    [stem |-> file.stem \o <<"_header">>, suffix |-> file.suffix]

\* file.with_name(f"{file.stem}_manifesto.json")
manifesto_file_of(file) ==
    [stem |-> file.stem \o <<"_manifesto">>, suffix |-> ".json"]

EmptyFs == <<>>

\* path.write_bytes(data), and open(path, "w") followed by a dump
write_bytes(files, path, data) ==
    [q \in (DOMAIN files) \cup {path} |-> IF q = path THEN data ELSE files[q]]

\* read_bs(file): the file's bytes, decoded as a BeaconState
read_bs(files, file) ==
    IF file \notin DOMAIN files
    THEN [error |-> "FileNotFoundError", value |-> NoState]
    ELSE decode_state(files[file])

\* The state main builds without looking at the state of start_from.
new_batch_state(slot, ep, start_from, old, validators, balances) ==
    make_beacon_block_state(slot, ep, GENESIS_BLOCK_ROOT, validators, balances)

\* The state main builds (lines 284-294): the new batch, after the lists of
\* the state read from start_from when one is given.
main_beacon_state(slot, ep, start_from, old, validators, balances) ==
    IF start_from # NoPath
    THEN make_beacon_block_state(slot, ep, GENESIS_BLOCK_ROOT,
                                 old.validators \o validators,
                                 old.balances \o balances)
    ELSE make_beacon_block_state(slot, ep, GENESIS_BLOCK_ROOT,
                                 validators, balances)

\* append_to_existing once generate_validators_and_balances has returned
\* validators and balances: the parent root is the old state's root.
append_to_existing(old, slot, ep, validators, balances) ==
    make_beacon_block_state(slot, ep, state_root_of(old),
                            old.validators \o validators,
                            old.balances \o balances)

-----------------------------------------------------------------------------
(* main.py: a run of main                                                  *)

\* How far the inputs of a run go beyond the least valid ones.
MaxExtra == 1
MaxSeed == 1

BALANCE_MODES == {"random", "sequential", "fixed"}

NoArgs == [file |-> NoPath, validators |-> 0, lido_validators |-> 0,
           balances_mode |-> "", seed |-> 0, slot |-> 0, check |-> FALSE,
           shuffle |-> FALSE, perm |-> <<>>, start_from |-> NoPath]

\* The value of --balances_mode on a command line without -b: the option's
\* default, the enum member BalanceMode.SEQUENTIAL, which is none of the
\* strings of BALANCE_MODES.
BALANCES_MODE_DEFAULT == "BalanceMode.SEQUENTIAL"

\* click.Choice(BALANCE_MODES) converting the value of --balances_mode, the
\* default included: a value that is not one of the choices is refused and
\* main is not entered.
click_balances_mode(value) ==
    IF value \in BALANCE_MODES THEN "" ELSE "BadParameter"

\* main without options
DefaultInvocation ==
    [file |-> DefaultFile, validators |-> 1024, lido_validators |-> 32,
     balances_mode |-> BALANCES_MODE_DEFAULT, seed |-> 0, slot |-> 123456,
     check |-> FALSE, shuffle |-> FALSE, perm |-> <<>>, start_from |-> NoPath]

\* main -b sequential: the other options at their defaults
SequentialInvocation ==
    [DefaultInvocation EXCEPT !.balances_mode = "sequential"]

\* perm of a command line: the order its shuffle draws, which comes after
\* the draws of the balances in mode random.
with_shuffle_order(a) ==
    [a EXCEPT !.perm =
        IF a.shuffle
        THEN shuffle_order(a.seed, a.validators,
                           IF a.balances_mode = "random" THEN a.validators
                           ELSE 0)
        ELSE <<>>]

\* Command lines around the least valid counts; seed is the state of the
\* random generator, and counts only where the generator is used.
SmallInvocations ==
    {with_shuffle_order(a) :
       a \in {b \in [file : {DefaultFile},
                     validators : 32..(32 + MaxExtra),
                     lido_validators : 31..(32 + MaxExtra),
                     balances_mode : BALANCE_MODES \cup {BALANCES_MODE_DEFAULT},
                     seed : 0..MaxSeed,
                     slot : {31, 95},
                     check : BOOLEAN,
                     shuffle : BOOLEAN,
                     perm : {<<>>},
                     start_from : {NoPath, OldFile}] :
                (b.balances_mode # "random" /\ ~b.shuffle) => b.seed = 0}}

Invocations ==
    SmallInvocations \cup {DefaultInvocation, SequentialInvocation}

\* The state an earlier run of main wrote.
state_of_run(a) ==
    LET g == generate_validators_and_balances(
                 a.slot, a.slot \div SLOTS_PER_EPOCH, a.validators,
                 a.lido_validators, a.balances_mode, a.seed, a.shuffle, a.perm)
    IN make_beacon_block_state(a.slot, a.slot \div SLOTS_PER_EPOCH,
                               GENESIS_BLOCK_ROOT, g.validators, g.balances)

EarlierRuns ==
    {[NoArgs EXCEPT !.file = OldFile, !.validators = 32, !.lido_validators = 32,
                    !.balances_mode = "fixed", !.slot = 95],
     with_shuffle_order(
         [NoArgs EXCEPT !.file = OldFile, !.validators = 33,
                        !.lido_validators = 32, !.balances_mode = "random",
                        !.seed = 1, !.slot = 64, !.shuffle = TRUE])}

\* The files main may find: none, the state file of an earlier run, or such
\* a file cut short.
InitialFiles ==
    {EmptyFs}
      \cup {write_bytes(EmptyFs, OldFile, encode_state(state_of_run(a)).bytes) :
              a \in EarlierRuns}
      \cup {write_bytes(EmptyFs, OldFile,
                        SubSeq(encode_state(state_of_run(a)).bytes, 1, 100)) :
              a \in EarlierRuns}

NoHeader == create_beacon_block_header(0, ZeroChunk)
NoReport == [slot |-> 0, epoch |-> 0, beacon_block_hash |-> ZeroChunk,
             beacon_state_hash |-> ZeroChunk, total_balance |-> 0,
             lido_cl_balance |-> 0, total_validators |-> 0,
             lido_total_validators |-> 0, lido_deposited_validators |-> 0,
             lido_future_deposit_validators |-> 0,
             lido_exited_validators |-> 0,
             lido_withdrawal_credentials |-> WithdrawalCreds_Lido]

\* No run of main has begun.
MainIdle ==
    /\ args = NoArgs
    /\ pc = "start"
    /\ error = ""
    /\ run_epoch = 0
    /\ validators_list = <<>>
    /\ balances_list = <<>>
    /\ old_bs = NoState
    /\ beacon_state = NoState
    /\ beacon_state_hash = ZeroChunk
    /\ beacon_block_header = NoHeader
    /\ report = NoReport
    /\ reread_beacon_state = NoState

\* No call of the proof utility is made.
ProofIdle ==
    /\ self = [cls |-> "BeaconBlockHeader", hash_tree |-> <<>>]
    /\ phase = "new"
    /\ proof = <<>>
    /\ issued = NotIssued
    /\ edit = NoEdit
    /\ call = NoCall
    /\ ret = NoOutcome

MainInit ==
    /\ fs \in InitialFiles
    /\ MainIdle
    /\ ProofIdle

\* The command line is parsed, then main, lines 257-282: the balance
\* generator, the epoch, the two lists
Generate(a) ==
    /\ pc = "start"
    /\ args' = a
    /\ IF click_balances_mode(a.balances_mode) # ""
       THEN /\ pc' = "failed"
            /\ error' = click_balances_mode(a.balances_mode)
            /\ UNCHANGED <<run_epoch, validators_list, balances_list>>
       ELSE /\ run_epoch' = a.slot \div SLOTS_PER_EPOCH
            /\ LET g == generate_validators_and_balances(
                            a.slot, a.slot \div SLOTS_PER_EPOCH, a.validators,
                            a.lido_validators, a.balances_mode, a.seed,
                            a.shuffle, a.perm)
               IN /\ validators_list' = g.validators
                  /\ balances_list' = g.balances
                  /\ error' = g.error
                  /\ pc' = IF g.error = "" THEN "generated" ELSE "failed"
    /\ UNCHANGED <<fs, old_bs, beacon_state, beacon_state_hash,
                   beacon_block_header, report, reread_beacon_state, proofVars>>

\* main, lines 284-352: the state (after the one of start_from), its root,
\* the header and the report
Build ==
    /\ pc = "generated"
    /\ LET old == IF args.start_from # NoPath
                  THEN read_bs(fs, args.start_from)
                  ELSE [error |-> "", value |-> NoState]
       IN IF old.error # ""
          THEN /\ pc' = "failed"
               /\ error' = old.error
               /\ UNCHANGED <<old_bs, beacon_state, beacon_state_hash,
                              beacon_block_header, report>>
          ELSE /\ old_bs' = old.value
               /\ beacon_state' = main_beacon_state(
                      args.slot, run_epoch, args.start_from, old.value,
                      validators_list, balances_list)
               /\ beacon_state_hash' = state_root_of(beacon_state')
               /\ beacon_block_header' =
                      create_beacon_block_header(args.slot, beacon_state_hash')
               /\ report' = Report_create(run_epoch, beacon_state',
                                          beacon_block_header')
               /\ pc' = "built"
               /\ error' = ""
    /\ UNCHANGED <<fs, args, run_epoch, validators_list, balances_list,
                   reread_beacon_state, proofVars>>

\* main, lines 354-361: the state, the header and the manifesto are written
Write ==
    /\ pc = "built"
    /\ LET e == encode_state(beacon_state)
       IN IF e.error # ""
          THEN /\ pc' = "failed"
               /\ error' = e.error
               /\ UNCHANGED fs
          ELSE /\ fs' = write_bytes(
                            write_bytes(
                                write_bytes(fs, args.file, e.bytes),
                                header_file_of(args.file),
                                encode_header(beacon_block_header)),
                            manifesto_file_of(args.file),
                            manifesto_of(report, beacon_state,
                                         beacon_block_header))
               /\ pc' = IF args.check THEN "written" ELSE "done"
               /\ UNCHANGED error
    /\ UNCHANGED <<args, run_epoch, validators_list, balances_list,
                   old_bs, beacon_state, beacon_state_hash,
                   beacon_block_header, report, reread_beacon_state,
                   proofVars>>

\* main, lines 363-368: with --check the file is read back and compared
Check ==
    /\ pc = "written"
    /\ LET r == read_bs(fs, args.file)
       IN IF r.error # ""
          THEN /\ pc' = "failed"
               /\ error' = r.error
               /\ UNCHANGED reread_beacon_state
          ELSE /\ reread_beacon_state' = r.value
               /\ IF /\ r.value.slot = beacon_state.slot
                     /\ beacon_state_hash = state_root_of(r.value)
                  THEN pc' = "done" /\ error' = ""
                  ELSE pc' = "failed" /\ error' = "AssertionError"
    /\ UNCHANGED <<fs, args, run_epoch, validators_list, balances_list,
                   old_bs, beacon_state, beacon_state_hash,
                   beacon_block_header, report, proofVars>>

MainNext ==
    \/ \E a \in Invocations : Generate(a)
    \/ Build
    \/ Write
    \/ Check

\* An instance to call the proof utility on; main is not run.
Init ==
    /\ ProofInit
    /\ MainIdle
    /\ fs = EmptyFs

\* Calls of the proof utility on one instance
Spec == Init /\ [][ProofNext]_vars

\* One run of main over the files it finds
MainSpec == MainInit /\ [][MainNext]_vars

-----------------------------------------------------------------------------
(* Properties of the proof utility                                         *)

LayersBelowRoot(x) == Len(raw_hash_tree_for_inclusion(x))

Returned(o) == o.status = "return"

\* The last call was x.construct_inclusion_proof(f, h) on the instance the
\* session still has.
Constructed == call.op = "construct" /\ edit.kind # "set"

\* The last call verified the held proof for the field and the hash it was
\* constructed for.
VerifiedIssued ==
    /\ call.op = "verify" /\ issued # NotIssued
    /\ call.field_name = issued.field_name
    /\ call.field_hash = issued.field_hash

\* C1: for every declared field f of a BeaconBlockHeader or a BeaconState,
\* with h the root of f in the leaf layer, construct_inclusion_proof(f, h)
\* returns a proof and verify_inclusion_proof(f, h, that proof) returns true;
\* neither call raises.
C1_ProofSoundness ==
    /\ (Constructed /\ call.field_name \in Names(self.cls)
          /\ call.field_hash = FieldRoot(self, call.field_name))
         => /\ Returned(ret)
            /\ LET v == verify_inclusion_proof(self, call.field_name,
                                               call.field_hash, ret.proof)
               IN Returned(v) /\ v.ok
    /\ (VerifiedIssued /\ edit = NoEdit) => (Returned(ret) /\ ret.ok)

\* The failing case of C1: the last field of the 5-field header.
C1_LastFieldRaises ==
    /\ Constructed /\ self.cls = "BeaconBlockHeader"
    /\ call.field_name = "body_root"
    /\ call.field_hash = FieldRoot(self, "body_root")
    /\ ret.status = "raise" /\ ret.error = "IndexError"

\* C2: a proof returned for (f, h) with one element replaced by another
\* 32-byte value makes verify_inclusion_proof(f, h, .) return false, at
\* whatever position the element was replaced.
C2_TamperReturnsFalse ==
    (VerifiedIssued /\ edit.kind = "tamper") => (Returned(ret) /\ ~ret.ok)

\* The failing case of C2: the first element replaced, and the call raises.
C2_TamperRaises ==
    /\ VerifiedIssued /\ edit.kind = "tamper" /\ edit.pos = 0
    /\ ret.status = "raise" /\ ret.error = "AssertionError"

\* C3: for a declared field, any field_hash and a proof whose length is not
\* the number of layers below the root, verify_inclusion_proof returns false,
\* raises nothing and evaluates no per-layer assertion.
C3_LengthMismatchIsFalse ==
    /\ (call.op = "verify" /\ call.field_name \in Names(self.cls)
          /\ Len(call.inclusion_proof) # LayersBelowRoot(self))
         => (Returned(ret) /\ ~ret.ok /\ ret.asserts = 0)
    /\ Len(proof) # LayersBelowRoot(self)
         => \A f \in Names(self.cls) :
              \A h \in OtherValues \cup {FieldRoot(self, f)} :
                LET v == verify_inclusion_proof(self, f, h, proof)
                IN Returned(v) /\ ~v.ok /\ v.asserts = 0

\* A proof one element too long, and one that is one short, were refused.
C3_Witness ==
    /\ call.op = "verify" /\ edit.kind = "resize" /\ issued # NotIssued
    /\ call.field_name = issued.field_name
    /\ call.field_hash = issued.field_hash
    /\ Len(call.inclusion_proof) = LayersBelowRoot(self) + 1
    /\ Returned(ret) /\ ~ret.ok

\* C4: construct_inclusion_proof for a declared field with a field_hash that
\* is not the value of the leaf layer at the field's index fails with the
\* precondition error (Python's AssertionError) and returns no proof.
C4_WrongHashIsRefused ==
    (Constructed /\ call.field_name \in Names(self.cls)
       /\ call.field_hash # FieldRoot(self, call.field_name))
      => /\ ret.status = "raise" /\ ret.error = "AssertionError"
         /\ ret.proof = NoProof /\ issued = NotIssued

C4_Witness ==
    /\ Constructed /\ call.field_name = "state_root"
    /\ call.field_hash # FieldRoot(self, "state_root")
    /\ ret.error = "AssertionError" /\ ret.proof = NoProof

\* C5: construct_inclusion_proof for a name the schema does not declare
\* fails with the unknown-field error (Python's ValueError) before the
\* retained tree is read, and returns no proof.
C5_UnknownFieldIsRefused ==
    (Constructed /\ call.field_name \notin Names(self.cls))
      => /\ ret.status = "raise" /\ ret.error = "ValueError"
         /\ ~ret.tree_read
         /\ ret.proof = NoProof /\ issued = NotIssued

C5_Witness ==
    /\ Constructed /\ call.field_name = UnknownField
    /\ ret.status = "raise" /\ self.cls = "BeaconState"

\* C6: a proof constructed on x for (f, h) is never accepted by an instance
\* x' of the same schema that differs from x in the root of a field:
\* x'.verify_inclusion_proof(f, h, proof) does not return true.
C6_ProofBoundToInstance ==
    (VerifiedIssued /\ edit.kind = "set") => ~(Returned(ret) /\ ret.ok)

\* x' differs from x in another field than f, every assertion passed and the
\* root comparison refused the proof.
C6_Witness ==
    /\ VerifiedIssued /\ edit.kind = "set"
    /\ edit.pos # get_field_index(self, issued.field_name)
    /\ Returned(ret) /\ ~ret.ok /\ ret.asserts = LayersBelowRoot(self)

\* The sibling of index i.
Sibling(i) == IF i % 2 = 0 THEN i + 1 ELSE i - 1

RECURSIVE Pow2(_)
Pow2(k) == IF k = 0 THEN 1 ELSE 2 * Pow2(k - 1)

\* C10: construct_inclusion_proof for the field at leaf index i returns one
\* hash per layer below the root (3 for BeaconBlockHeader, 5 for
\* BeaconState), leaf to root, the k-th being the node of layer k at the
\* sibling of i div 2^k; the call changes neither the tree nor the container.
C10_ProofShape ==
    (Constructed /\ call.field_name \in Names(self.cls)
       /\ call.field_hash = FieldRoot(self, call.field_name))
      => LET i == get_field_index(self, call.field_name)
             tree == raw_hash_tree_for_inclusion(self)
         IN /\ Returned(ret)
            /\ Len(ret.proof) = Len(tree)
            /\ Len(ret.proof) = IF self.cls = "BeaconBlockHeader" THEN 3 ELSE 5
            /\ \A k \in 0..(Len(tree) - 1) :
                 /\ Sibling(i \div Pow2(k)) < Len(At(tree, k))
                 /\ At(ret.proof, k) = At(At(tree, k), Sibling(i \div Pow2(k)))

\* The failing case of C10: a field of BeaconState whose path has no sibling
\* in the 7-node layer.
C10_NoProofReturned ==
    /\ Constructed /\ self.cls = "BeaconState"
    /\ call.field_name = "historical_summaries"
    /\ call.field_hash = FieldRoot(self, "historical_summaries")
    /\ ret.status = "raise" /\ ret.error = "IndexError" /\ ret.proof = NoProof

\* The proof of the field at field_index that the root is computed with:
\* at layer k the node next to the path, which is ZERO_HASHES[k] where the
\* retained layer ends before it.
path_proof(x, field_index) ==
    LET tree == raw_hash_tree_for_inclusion(x)
    IN list([j \in 1..Len(tree) |->
          LET i == Sibling(field_index \div Pow2(j - 1))
          IN IF i < Len(tree[j]) THEN At(tree[j], i) ELSE ZERO_HASHES(j - 1)])

\* The fields the redundancy of the assertion is examined for in a state.
ExaminedNames ==
    ({call.field_name} \cap Names(self.cls))
      \cup {field_names(self.cls)[1],
            field_names(self.cls)[Len(field_names(self.cls))]}

\* The inputs (f, h, p) of verify_inclusion_proof examined in a state: the
\* last call's and the held proof, for the examined fields and their roots,
\* and each examined field with its root and its path proof.
ExaminedInputs ==
    {<<f, h, p>> : f \in ExaminedNames,
                   h \in {call.field_hash} \cup
                         {FieldRoot(self, g) : g \in ExaminedNames},
                   p \in {proof, call.inclusion_proof}}
      \cup {<<f, FieldRoot(self, f), path_proof(self, get_field_index(self, f))>> :
              f \in ExaminedNames}

\* (f, h, p) is an input the final comparison accepts: p has one element per
\* layer below the root and the hashing leads from h to the root.
Accepted(f, h, p) ==
    /\ Len(h) = BYTES_PER_CHUNK
    /\ Len(p) = LayersBelowRoot(self)
    /\ recompute_root(p, 0, get_field_index(self, f), h)
         = get_hash_tree_root(self)

\* C11: the assertion of verify_inclusion_proof is redundant with the final
\* comparison: for a declared field f, a hash h and a proof p of one element
\* per layer, when the hashing of (h, p) leads to the root of the container,
\* the hash carried into every layer is the node of the retained tree at the
\* current index, so no assertion fires and the call returns true.
C11_AssertionRedundant ==
    /\ \A i \in ExaminedInputs :
         Accepted(i[1], i[2], i[3]) =>
           LET r == verify_loop(raw_hash_tree_for_inclusion(self), i[3], 0,
                                get_field_index(self, i[1]), i[2])
               v == verify_inclusion_proof(self, i[1], i[2], i[3])
           IN /\ r[1] = "" /\ r[3] = LayersBelowRoot(self)
              /\ Returned(v) /\ v.ok
    /\ (call.op = "verify" /\ ret.error = "AssertionError")
         => ~Accepted(call.field_name, call.field_hash, call.inclusion_proof)

\* The proof of the last field of a BeaconState, found with the zero hash
\* the retained tree does not hold, leads to the root; and a returned proof
\* was verified with every assertion passing.
C11_Witness ==
    /\ self.cls = "BeaconState"
    /\ VerifiedIssued /\ edit = NoEdit
    /\ Accepted(call.field_name, call.field_hash, call.inclusion_proof)
    /\ Returned(ret) /\ ret.ok /\ ret.asserts = 5
    /\ Accepted("historical_summaries",
                FieldRoot(self, "historical_summaries"),
                path_proof(self, 27))
    /\ path_proof(self, 27)[3] = ZERO_HASHES(2)

\* C12: for every declared field of the container and every layer below
\* the root, the current index and the sibling index that
\* construct_inclusion_proof selects are positions of the retained layer, so
\* construction with the field's root never fails with an index error.
C12_SiblingInTree ==
    /\ \A i \in 0..(Len(field_names(self.cls)) - 1) :
         \A k \in 0..(LayersBelowRoot(self) - 1) :
           LET layer == At(raw_hash_tree_for_inclusion(self), k)
           IN /\ i \div Pow2(k) < Len(layer)
              /\ Sibling(i \div Pow2(k)) < Len(layer)
    /\ (Constructed /\ call.field_name \in Names(self.cls)
          /\ call.field_hash = FieldRoot(self, call.field_name))
         => ret.error # "IndexError"

\* The failing case of C12: for field 25 of a BeaconState the path reaches
\* index 6 of the 7-node layer 2, whose sibling 7 is no node of that layer.
C12_SiblingOutsideLayer ==
    /\ Constructed /\ self.cls = "BeaconState"
    /\ call.field_name = "next_withdrawal_index"
    /\ call.field_hash = FieldRoot(self, "next_withdrawal_index")
    /\ get_field_index(self, call.field_name) = 25
    /\ Len(At(raw_hash_tree_for_inclusion(self), 2)) = 7
    /\ Sibling(25 \div Pow2(2)) = 7
    /\ ret.status = "raise" /\ ret.error = "IndexError"

-----------------------------------------------------------------------------
(* Properties of a run of main                                             *)

\* main has built its state (and has not failed since).
Built == pc \in {"built", "written", "done"}

\* C8: when the state is built from the generated lists alone, the report
\* counts as Lido validators the L validators with the Lido credentials and
\* as total validators all T, shuffled or not; 32 and 1024 for the run
\* with the default counts.
C8_ReportCounts ==
    (Built /\ args.start_from = NoPath) =>
        /\ report.lido_total_validators = args.lido_validators
        /\ report.lido_total_validators =
             Cardinality({i \in 1..Len(beacon_state.validators) :
                 beacon_state.validators[i].withdrawal_credentials
                     = WithdrawalCreds_Lido})
        /\ report.total_validators = args.validators
        /\ args = SequentialInvocation =>
             /\ report.lido_total_validators = 32
             /\ report.total_validators = 1024

\* The run with the default counts and -b sequential has reported 32 of 1024.
C8_Witness ==
    /\ pc = "done" /\ args = SequentialInvocation
    /\ Len(beacon_state.validators) = 1024
    /\ report.lido_total_validators = 32
    /\ report.total_validators = 1024

\* C9: with start_from the state built holds the validators of the state
\* read from that file followed by the generated ones, and the balances
\* likewise: the counts add up and the two lists are equally long; its root
\* is neither the root of the state read nor the root of the state the
\* generated lists alone would make. append_to_existing joins the same lists.
C9_Appending ==
    (Built /\ args.start_from # NoPath) =>
        /\ old_bs = decode_state(fs[args.start_from]).value
        /\ beacon_state.validators = old_bs.validators \o validators_list
        /\ beacon_state.balances = old_bs.balances \o balances_list
        /\ Len(beacon_state.validators)
             = Len(old_bs.validators) + args.validators
        /\ Len(beacon_state.validators) = Len(beacon_state.balances)
        /\ beacon_state_hash = state_root_of(beacon_state)
        /\ beacon_state_hash # state_root_of(old_bs)
        /\ beacon_state_hash #
             state_root_of(new_batch_state(args.slot, run_epoch,
                                           args.start_from, old_bs,
                                           validators_list, balances_list))
        /\ LET appended == append_to_existing(old_bs, args.slot, run_epoch,
                                              validators_list, balances_list)
           IN /\ appended.validators = beacon_state.validators
              /\ appended.balances = beacon_state.balances

\* 33 shuffled validators were appended to the 33 of an earlier state.
C9_Witness ==
    /\ pc = "done" /\ args.start_from = OldFile /\ args.shuffle
    /\ Len(old_bs.validators) = 33
    /\ Len(validators_list) = 33
    /\ Len(beacon_state.validators) = 66

\* C13: the header main emits commits to the state it emits: its state_root
\* is the hash tree root of the state (the one written to the state file),
\* its slot is the state's slot, the report's beacon_state_hash is the
\* header's state_root and its beacon_block_hash the header's own hash tree
\* root, with and without start_from.
C13_HeaderCommitsToState ==
    /\ Built =>
         /\ beacon_block_header.state_root = state_root_of(beacon_state)
         /\ beacon_block_header.state_root = beacon_state_hash
         /\ beacon_block_header.slot = beacon_state.slot
         /\ report.beacon_state_hash = beacon_block_header.state_root
         /\ report.beacon_block_hash = header_root_of(beacon_block_header)
         /\ report.slot = beacon_block_header.slot
    /\ pc \in {"written", "done"} =>
         /\ fs[header_file_of(args.file)] = encode_header(beacon_block_header)
         /\ fs[header_file_of(args.file)][4]
              = state_root_of(decode_state(fs[args.file]).value)
         /\ fs[header_file_of(args.file)][1]
              = LittleEndian(decode_state(fs[args.file]).value.slot, 8)
         /\ fs[manifesto_file_of(args.file)].beacon_state.hash
              = beacon_block_header.state_root
         /\ fs[manifesto_file_of(args.file)].beacon_block_header.hash
              = header_root_of(beacon_block_header)

\* A run with start_from has written a header over the appended state.
C13_Witness ==
    /\ pc = "done" /\ args.start_from = OldFile
    /\ Len(beacon_state.validators) > args.validators
    /\ header_file_of(args.file) \in DOMAIN fs
    /\ beacon_block_header.state_root = state_root_of(beacon_state)
    /\ beacon_block_header.state_root # ZeroChunk

\* main was entered: the command line was accepted, and
\* generate_validators_and_balances has been called.
Entered == pc # "start" /\ error # "BadParameter"

\* The command line is one generate_validators_and_balances rejects.
Rejected ==
    \/ args.lido_validators > args.validators
    \/ args.lido_validators < 32

\* The positions of the generated validators with the Lido credentials.
LidoPositions ==
    {i \in 1..Len(validators_list) :
        validators_list[i].withdrawal_credentials = WithdrawalCreds_Lido}

\* C14: generate_validators_and_balances fails by assertion when
\* lido_validators > total_validators or lido_validators < 32. Otherwise
\* (32 <= L <= T) the statuses of the L Lido validators are nested: an
\* exited one is active and an active one is deposited, as
\* 5 <= L div 2 <= L - 10; exactly 5 (the first 5) are not deposited and
\* exactly 10 (the last 10) are exited; every other validator is deposited,
\* active and not exited.
C14_AssertsAndNestedFlags ==
    /\ (Entered /\ Rejected) =>
         /\ pc = "failed" /\ error = "AssertionError"
         /\ validators_list = <<>> /\ balances_list = <<>>
    /\ (Entered /\ ~Rejected) =>
         LET L == args.lido_validators
             T == args.validators
         IN /\ ~(pc = "failed" /\ error = "AssertionError")
            /\ Len(validators_list) = T /\ Len(balances_list) = T
            /\ Cardinality(LidoPositions) = L
            /\ 5 <= L \div 2 /\ L \div 2 <= L - 10
            /\ \A i \in LidoPositions :
                 /\ IsExited(validators_list[i]) => IsActive(validators_list[i])
                 /\ IsActive(validators_list[i])
                      => IsDeposited(validators_list[i])
            /\ Cardinality({i \in LidoPositions :
                              ~IsDeposited(validators_list[i])}) = 5
            /\ Cardinality({i \in LidoPositions :
                              IsActive(validators_list[i])}) = L - L \div 2
            /\ Cardinality({i \in LidoPositions :
                              IsExited(validators_list[i])}) = 10
            /\ \A i \in (1..T) \ LidoPositions :
                 /\ validators_list[i].withdrawal_credentials
                      = WithdrawalCreds_Other
                 /\ IsDeposited(validators_list[i])
                 /\ IsActive(validators_list[i])
                 /\ ~IsExited(validators_list[i])
            /\ ~args.shuffle =>
                 /\ LidoPositions = 1..L
                 /\ \A i \in 1..L :
                      /\ IsDeposited(validators_list[i]) <=> (i - 1 >= 5)
                      /\ IsActive(validators_list[i]) <=> (i - 1 >= L \div 2)
                      /\ IsExited(validators_list[i]) <=> (i - 1 >= L - 10)

\* 33 Lido validators of 33 were generated in order: the status changes are
\* at indices 5, 16 and 23.
C14_Witness ==
    /\ pc = "generated" /\ ~args.shuffle
    /\ args.lido_validators = 33 /\ args.validators = 33
    /\ ~IsDeposited(validators_list[5]) /\ IsDeposited(validators_list[6])
    /\ ~IsActive(validators_list[16]) /\ IsActive(validators_list[17])
    /\ ~IsExited(validators_list[23]) /\ IsExited(validators_list[24])

=============================================================================
